---- MODULE Spec2Model ----
(***************************************************************************)
(* Model of src/main.py: the settlement pipeline (process_trades), the    *)
(* price-discovery pass (update_price_chart) and the main loop that runs  *)
(* them in turn, together with the spreadsheet store they read and write. *)
(*                                                                         *)
(* Money is fixed point.  Prices, totals and cash are integers in mills   *)
(* (1/1000 of a rupee), so that round(x, 2) is a real conversion; circuit *)
(* bounds are integers in 1/10 mill, so that price * 1.20 and price * 0.80*)
(* are exact.  Arithmetic is exact decimal arithmetic over finite values: *)
(* the rounding error of binary floats and the non-finite values float()  *)
(* accepts ("nan", "inf") are outside the model.                          *)
(***************************************************************************)
EXTENDS Integers, Sequences, FiniteSets, TLC

\* ------------------------------------------------------------------ bounds
\* Rows the order sheet may hold, and full cycles of the main loop.
MaxOrders == 2
MaxCycles == 2
\* Failures of the store (a read or a write that raises) in one run.
MaxFaults == 1

\* ------------------------------------------------------- program constants
\* MIN_ORDER_VALUE = 7500, in mills.
MIN_ORDER_VALUE == 7500000
\* abs(declared - calculated) > 0.01, in mills.
TotalTolerance == 10
\* round(x, 2): one cent, in mills.
Cent == 10
\* Circuit bounds are kept in 1/10 mill: price * 1.20 = (price * 12) / 10.
CircScale == 10
UpperFactor == 12
LowerFactor == 8
\* random.uniform(-0.015, 0.015) in 1/1000, random.uniform(-0.02, 0.02) in mills.
PctMax == 15
FixMax == 20
\* if new_current_price < 0: new_current_price = 0.01
FloorPrice == 10
\* The sliding window of recent trades.
WindowSize == 3
\* The columns process_trades unpacks from a row.
RowWidth == 10

\* The configured instruments (two of the eight of INITIAL_COMPANY_PRICES).
INITIAL_COMPANY_PRICES == ("RELIANCE" :> 1500000) @@ ("BPCL" :> 330000)
Companies == DOMAIN INITIAL_COMPANY_PRICES
\* A company name that is on the sheets but is no configured instrument.
Unlisted == "XYZ"
AllCompanies == Companies \cup {Unlisted}

\* SHEET_MAPPING: the participants with a ledger sheet.
Participants == {"MasterAccount", "Silhouette"}
\* A name an order may carry that SHEET_MAPPING does not know.
Stranger == "Ghost"
Names == Participants \cup {Stranger}

\* ------------------------------------------------------------ cell values
\* A cell of the store is text.  Num(v) is text that parses to v, Blank the
\* empty cell, Junk text that parses to no number.
Num(v) == [kind |-> "num", v |-> v]
Blank == [kind |-> "blank", v |-> 0]
Junk == [kind |-> "junk", v |-> 0]

Abs(x) == IF x < 0 THEN -x ELSE x

\* round(x, 2) of a value in mills.  Python rounds the binary float, so a
\* decimal tie (a trailing 5 mills) goes either way.
Round2(x) ==
    LET r == x % Cent
        down == x - r
    IN  IF 2 * r < Cent THEN {down}
        ELSE IF 2 * r > Cent THEN {down + Cent}
        ELSE {down, down + Cent}

RECURSIVE SumOver(_, _)
SumOver(f, S) ==
    IF S = {} THEN 0
    ELSE LET x == CHOOSE y \in S : TRUE IN f[x] + SumOver(f, S \ {x})

\* -------------------------------------------------------------- variables
VARIABLES
    \* the store
    broker,          \* BrokerTerminal: the order rows below the header
    brokerWidth,     \* columns of the rows get_all_values returns
    ledgerCash,      \* per participant sheet: cell B2
    ledgerHold,      \* per participant sheet: rows A6:B14, company -> cell
    ledgerTxns,      \* per participant sheet: appended transaction rows
    adminRows,       \* Admin_Controls: company -> [price, apply]
    chartRows,       \* Price_Chart: the company names of the rows
    \* the process's globals
    LAST_TRADED_PRICES,
    CURRENT_VWAP_PRICES,
    RECENT_TRADES_HISTORY,
    COMPANY_VOLUME,
    CURRENT_CIRCUITS,
    \* process_trades' locals
    new_transactions_to_process,
    participant_data_for_batch_update,
    updates_to_broker_terminal,
    \* control
    pc,              \* position in the main loop
    k,               \* index of the next order of the batch
    cycle,           \* full cycles started
    \* history
    loaded,          \* the snapshot as pre-fetched, kept for comparison
    faults,          \* the failures of the store so far
    applied,         \* per row: the cycles whose settlement moved ledgers or trade flow
                     \* for it
    acceptedTrades   \* per company: the <<price, quantity>> of the orders accepted
                     \* since an override was last applied to it, oldest first

store == <<broker, brokerWidth, ledgerCash, ledgerHold, ledgerTxns, adminRows, chartRows>>
globals == <<LAST_TRADED_PRICES, CURRENT_VWAP_PRICES, RECENT_TRADES_HISTORY,
             COMPANY_VOLUME, CURRENT_CIRCUITS>>
tradeFlow == <<LAST_TRADED_PRICES, RECENT_TRADES_HISTORY, COMPANY_VOLUME>>
locals == <<new_transactions_to_process, participant_data_for_batch_update,
            updates_to_broker_terminal>>
vars == <<store, globals, locals, pc, k, cycle, loaded, faults, applied, acceptedTrades>>

\* ------------------------------------------------------------- the store
NoReason == [kind |-> "", a |-> 0, b |-> 0]
Reason(kind, a, b) == [kind |-> kind, a |-> a, b |-> b]

\* The participants an order row may name, as <<buyer, seller>>.
Pairs == {<<"MasterAccount", "Silhouette">>, <<"Silhouette", "MasterAccount">>,
          <<"MasterAccount", "MasterAccount">>, <<"MasterAccount", Stranger>>}

\* What an order row may ask for, as <<company, quantity, price, declared total>>.
Terms == {
    <<"RELIANCE", Num(5), Num(1500000), Blank>>,
    <<"RELIANCE", Num(6), Num(1250001), Num(7500000)>>,
    <<"RELIANCE", Num(20), Num(800000), Blank>>,
    <<"RELIANCE", Num(5), Num(1000000), Num(5000000)>>,
    <<"RELIANCE", Num(6), Num(1500000), Blank>>,
    <<"RELIANCE", Junk, Num(1500000), Blank>>,
    <<"RELIANCE", Num(5), Num(1500000), Junk>>,
    <<"RELIANCE", Num(0), Num(1500000), Blank>>,
    <<"RELIANCE", Num(-10), Num(-800000), Blank>>,
    <<"BPCL", Num(23), Num(330000), Num(8000000)>>,
    <<"RELIANCE", Num(7), Num(1200000), Blank>>,
    <<Unlisted, Num(5), Num(1500000), Blank>>,
    <<Unlisted, Num(-10), Num(-800000), Blank>> }

\* A row as submitted: no outcome yet, the process checkbox ticked.
NewRow(pair, term) ==
    [buyer |-> pair[1], seller |-> pair[2], company |-> term[1], qty |-> term[2],
     price |-> term[3], total |-> term[4], status |-> "", reason |-> NoReason,
     flag |-> "TRUE"]

\* The prices an administrator may force.
OverridePrices == {0}

Init ==
    /\ broker = <<>>
    /\ brokerWidth = RowWidth
    /\ ledgerCash = ("MasterAccount" :> Num(10000000)) @@ ("Silhouette" :> Num(8000000))
    /\ ledgerHold = ("MasterAccount" :>
                        (("RELIANCE" :> Num(20)) @@ ("BPCL" :> Num(30)) @@ (Unlisted :> Num(20))))
                    @@ ("Silhouette" :> (("RELIANCE" :> Num(5)) @@ (Unlisted :> Num(0))))
    /\ ledgerTxns = [p \in Participants |-> <<>>]
    /\ adminRows = [c \in Companies |-> [price |-> Blank, apply |-> FALSE]]
    /\ chartRows = <<"RELIANCE", Unlisted>>
    \* module level (lines 44-61) and then the entry point (lines 642-647)
    /\ LAST_TRADED_PRICES = INITIAL_COMPANY_PRICES
    /\ CURRENT_VWAP_PRICES = INITIAL_COMPANY_PRICES
    /\ RECENT_TRADES_HISTORY = [c \in Companies |-> <<>>]
    /\ COMPANY_VOLUME = [c \in Companies |-> 0]
    /\ CURRENT_CIRCUITS = [c \in Companies |->
                              [upper |-> INITIAL_COMPANY_PRICES[c] * UpperFactor,
                               lower |-> INITIAL_COMPANY_PRICES[c] * LowerFactor]]
    /\ new_transactions_to_process = <<>>
    /\ participant_data_for_batch_update = <<>>
    /\ updates_to_broker_terminal = <<>>
    /\ pc = "startup"
    /\ k = 1
    /\ cycle = 0
    /\ loaded = <<>>
    /\ faults = 0
    /\ applied = <<>>
    /\ acceptedTrades = [c \in Companies |-> <<>>]

\* ------------------------------------------- what the people at the sheets do
\* Between two cycles a trader adds an order row to BrokerTerminal: one of
\* `terms` between one of `pairs`, while the sheet holds fewer than `most` rows.
SubmitOrderOf(pairs, terms, most) ==
    /\ pc = "trades"
    /\ cycle < MaxCycles
    /\ Len(broker) < most
    /\ \E pair \in pairs, term \in terms :
          broker' = Append(broker, NewRow(pair, term))
    /\ applied' = Append(applied, {})
    /\ UNCHANGED <<brokerWidth, ledgerCash, ledgerHold, ledgerTxns, adminRows, chartRows,
                   globals, locals, pc, k, cycle, loaded, faults, acceptedTrades>>

SubmitOrder == SubmitOrderOf(Pairs, Terms, MaxOrders)

\* Somebody types into column K of BrokerTerminal: get_all_values pads every row
\* to the widest one, so every row now has eleven cells.
WidenBroker ==
    /\ pc = "trades"
    /\ cycle < MaxCycles
    /\ brokerWidth = RowWidth
    /\ brokerWidth' = RowWidth + 1
    /\ UNCHANGED <<broker, ledgerCash, ledgerHold, ledgerTxns, adminRows, chartRows,
                   globals, locals, pc, k, cycle, loaded, faults, applied, acceptedTrades>>

\* The administrator enters one of `prices` in an empty Admin_Controls and ticks
\* its checkbox.
SetOverrideOf(prices) ==
    /\ pc = "trades"
    /\ cycle < MaxCycles
    /\ \A c \in Companies : adminRows[c].price = Blank /\ ~adminRows[c].apply
    /\ \E c \in Companies, p \in prices :
          adminRows' = [adminRows EXCEPT ![c] = [price |-> Num(p), apply |-> TRUE]]
    /\ UNCHANGED <<broker, brokerWidth, ledgerCash, ledgerHold, ledgerTxns, chartRows,
                   globals, locals, pc, k, cycle, loaded, faults, applied, acceptedTrades>>

SetOverride == SetOverrideOf(OverridePrices)

\* --------------------------------------------------- reading the ledgers
\* get_cash_balance: the cell B2 as a number; an empty or unparseable cell, or a
\* read that fails, gives 0.0.
get_cash_balance(cell, readable) ==
    IF readable /\ cell.kind = "num" THEN cell.v ELSE 0

\* get_holdings: the rows of A6:B14 as a dictionary.  A row whose quantity cell is
\* empty comes back with one cell and is left out; an unparseable quantity counts
\* as 0; a read that fails gives the empty dictionary.
get_holdings(rows, readable) ==
    IF ~readable THEN [c \in {} |-> 0]
    ELSE [c \in {x \in DOMAIN rows : rows[x].kind # "blank"} |->
             IF rows[c].kind = "num" THEN rows[c].v ELSE 0]

\* participant_data_for_batch_update[name] = None
NoneData == [ok |-> FALSE, cash |-> 0, holdings |-> [c \in {} |-> 0], txns |-> <<>>,
             ranges |-> {}]

\* How the pre-fetch of one participant may go: everything is read, the sheet (or
\* the second read of A6:B14) raises, the read of B2 raises inside
\* get_cash_balance, the first read of A6:B14 raises inside get_holdings.
LoadModes == {"ok", "none", "nocash", "noholdings"}

\* The entry the pre-fetch makes for one participant.
Prefetch(name, mode) ==
    IF mode = "none" THEN NoneData
    ELSE [ok |-> TRUE,
          cash |-> get_cash_balance(ledgerCash[name], mode # "nocash"),
          holdings |-> get_holdings(ledgerHold[name], mode # "noholdings"),
          txns |-> <<>>,
          ranges |-> DOMAIN ledgerHold[name]]

\* participant_data_for_batch_update.get(name) is None
LedgerMissing(pd, name) == name \notin DOMAIN pd \/ ~pd[name].ok

\* ------------------------------------------------ selecting the fresh rows
\* A row is taken when its status cell is empty and its process cell says TRUE.
IsFresh(row) == row.status = "" /\ row.flag = "TRUE"

RECURSIVE FreshFrom(_, _, _)
FreshFrom(rows, width, i) ==
    IF i > Len(rows) THEN <<>>
    ELSE (IF width >= RowWidth /\ IsFresh(rows[i]) THEN <<i>> ELSE <<>>)
         \o FreshFrom(rows, width, i + 1)

\* new_transactions_to_process, as the indices of the rows taken.
FreshRows(rows, width) == FreshFrom(rows, width, 1)

\* all_participants_in_batch
BatchNames(rows, fresh) ==
    UNION {{rows[fresh[j]].buyer, rows[fresh[j]].seller} : j \in 1..Len(fresh)}

\* -------------------------------------------------- the checks of one order
\* int(qty_str), float(price_str) or float(total_str) raises ValueError.
ParseFails(row) ==
    row.qty.kind # "num" \/ row.price.kind # "num" \/ row.total.kind = "junk"

\* not total_str or abs(float(total_str) - calculated_total) > 0.01
NeedsCorrection(declared, t) ==
    declared.kind = "blank" \/ Abs(declared.v - t) > TotalTolerance

BelowMinimum(t) == t < MIN_ORDER_VALUE

\* A faulty variant of the circuit test: only the upper bound is tested.
OutsideCircuit_UpperOnly(circuits, company, price) ==
    /\ company \in DOMAIN circuits
    /\ circuits[company].upper # 0
    /\ circuits[company].lower # 0
    /\ ~(price * CircScale <= circuits[company].upper)

\* The circuit test of lines 524-528; bounds are in 1/10 mill.
OutsideCircuit(circuits, company, price) ==
    /\ company \in DOMAIN circuits
    /\ circuits[company].upper # 0
    /\ circuits[company].lower # 0
    /\ ~(circuits[company].lower <= price * CircScale
         /\ price * CircScale <= circuits[company].upper)

\* A faulty variant of the cash check: it asks only that the balance is not
\* negative, not that it covers the total.
InsufficientCash_IgnoresTotal(cash, t) == cash < 0

\* Line 540: buyer cash < total.
InsufficientCash(cash, t) == cash < t

\* Line 548: the seller has no entry for the company, or too few shares.
InsufficientStock(holdings, company, qty) ==
    company \notin DOMAIN holdings \/ holdings[company] < qty

\* holdings.get(company, 0)
Held(holdings, company) ==
    IF company \in DOMAIN holdings THEN holdings[company] ELSE 0

\* A faulty variant of the checks: cash and stock are tested against the
\* ledgers as they were pre-fetched, not as the earlier orders left them.
Validate_AgainstLoaded(row, t, pd, circuits) ==
    IF BelowMinimum(t) THEN Reason("minimum", MIN_ORDER_VALUE, t)
    ELSE IF LedgerMissing(pd, row.buyer) \/ LedgerMissing(pd, row.seller)
        THEN Reason("access", 0, 0)
    ELSE IF OutsideCircuit(circuits, row.company, row.price.v)
        THEN Reason("circuit", circuits[row.company].lower, circuits[row.company].upper)
    ELSE IF InsufficientCash(loaded[row.buyer].cash, t)
        THEN Reason("cash", loaded[row.buyer].cash, t)
    ELSE IF InsufficientStock(loaded[row.seller].holdings, row.company, row.qty.v)
        THEN Reason("stock", Held(loaded[row.seller].holdings, row.company), row.qty.v)
    ELSE NoReason

\* The reason of the first check that fails, in the order of lines 505-555, or
\* NoReason when none fails.
Validate(row, t, pd, circuits) ==
    IF BelowMinimum(t) THEN Reason("minimum", MIN_ORDER_VALUE, t)
    ELSE IF LedgerMissing(pd, row.buyer) \/ LedgerMissing(pd, row.seller)
        THEN Reason("access", 0, 0)
    ELSE IF OutsideCircuit(circuits, row.company, row.price.v)
        THEN Reason("circuit", circuits[row.company].lower, circuits[row.company].upper)
    ELSE IF InsufficientCash(pd[row.buyer].cash, t)
        THEN Reason("cash", pd[row.buyer].cash, t)
    ELSE IF InsufficientStock(pd[row.seller].holdings, row.company, row.qty.v)
        THEN Reason("stock", Held(pd[row.seller].holdings, row.company), row.qty.v)
    ELSE NoReason

\* ------------------------------------------------------- executing a trade
\* Line 559: buyer cash -= total.
Debit(cash, t) == cash - t

\* A faulty variant of line 560: the seller is not paid.
Credit_Dropped(cash, t) == cash

\* Line 560: seller cash += total.
Credit(cash, t) == cash + t

\* holdings[company] = holdings.get(company, 0) + qty
Receive(holdings, company, qty) ==
    [c \in DOMAIN holdings \cup {company} |->
        IF c = company THEN Held(holdings, company) + qty ELSE holdings[c]]

\* A faulty variant of line 564: the seller keeps the shares.
Deliver_Dropped(holdings, company, qty) == holdings

\* holdings[company] -= qty
Deliver(holdings, company, qty) == [holdings EXCEPT ![company] = @ - qty]

\* prepare_transaction_row, without its timestamp.
prepare_transaction_row(action, company, qty, price, total) ==
    [action |-> action, company |-> company, qty |-> qty, price |-> price,
     total |-> total]

\* Lines 559-571: the snapshot after the ledger statements of the execute block,
\* one statement after the other (buyer and seller may be the same entry).
Settle(pd, row, t) ==
    LET b == row.buyer
        s == row.seller
        c == row.company
        q == row.qty.v
        p1 == [pd EXCEPT ![b].cash = Debit(@, t)]
        p2 == [p1 EXCEPT ![s].cash = Credit(@, t)]
        p3 == [p2 EXCEPT ![b].holdings = Receive(@, c, q)]
        p4 == [p3 EXCEPT ![s].holdings = Deliver(@, c, q)]
        p5 == [p4 EXCEPT ![b].txns =
                  Append(@, prepare_transaction_row("BUY", c, q, row.price.v, t))]
    IN  [p5 EXCEPT ![s].txns =
            Append(@, prepare_transaction_row("SELL", c, q, row.price.v, t))]

\* A faulty variant of lines 573-575: pop() for pop(0), so that beyond three the
\* newest entry is the one that goes.
PushTrade_EvictsNewest(window, price, qty) ==
    LET w == Append(window, <<price, qty>>)
    IN  IF Len(w) > WindowSize THEN SubSeq(w, 1, WindowSize) ELSE w

\* RECENT_TRADES_HISTORY[company].append(...); pop(0) beyond three.
PushTrade(window, price, qty) ==
    LET w == Append(window, <<price, qty>>)
    IN  IF Len(w) > WindowSize THEN Tail(w) ELSE w

\* The cells one order adds to updates_to_broker_terminal: G (the corrected
\* total, when there is one), H (the marker), I (the reason), J (the checkbox).
Cells(i, g, h, why) == [row |-> i, G |-> g, H |-> h, I |-> why, J |-> "FALSE"]

\* ---------------------------------------------------------- process_trades
\* Lines 417-422: the order sheet cannot be read; the cycle is skipped.
BrokerUnreachable ==
    /\ pc = "trades"
    /\ cycle < MaxCycles
    /\ faults < MaxFaults
    /\ faults' = faults + 1
    /\ new_transactions_to_process' = <<>>
    /\ participant_data_for_batch_update' = <<>>
    /\ updates_to_broker_terminal' = <<>>
    /\ pc' = "chart"
    /\ k' = 1
    /\ cycle' = cycle + 1
    /\ loaded' = <<>>
    /\ UNCHANGED <<store, globals, applied, acceptedTrades>>

\* Lines 424-444: no row is fresh; process_trades returns False.
NoFreshOrders ==
    /\ pc = "trades"
    /\ cycle < MaxCycles
    /\ FreshRows(broker, brokerWidth) = <<>>
    /\ new_transactions_to_process' = <<>>
    /\ participant_data_for_batch_update' = <<>>
    /\ updates_to_broker_terminal' = <<>>
    /\ pc' = "chart"
    /\ k' = 1
    /\ cycle' = cycle + 1
    /\ loaded' = <<>>
    /\ UNCHANGED <<store, globals, faults, applied, acceptedTrades>>

\* Lines 454-455: a fresh row has more than ten cells, the unpacking raises
\* ValueError, process_trades is left and the main loop (line 660) goes on.
UnpackFails ==
    /\ pc = "trades"
    /\ cycle < MaxCycles
    /\ FreshRows(broker, brokerWidth) # <<>>
    /\ brokerWidth > RowWidth
    /\ new_transactions_to_process' = FreshRows(broker, brokerWidth)
    /\ participant_data_for_batch_update' = <<>>
    /\ updates_to_broker_terminal' = <<>>
    /\ pc' = "chart"
    /\ k' = 1
    /\ cycle' = cycle + 1
    /\ loaded' = <<>>
    /\ UNCHANGED <<store, globals, faults, applied, acceptedTrades>>

\* The reads or writes that raise in a choice of modes.
Failed(mode) == Cardinality({x \in DOMAIN mode : mode[x] # "ok"})

\* Lines 424-481: the fresh rows are taken and the ledgers of the participants
\* they name are pre-fetched; a name SHEET_MAPPING does not know gets no entry.
LoadBatch ==
    /\ pc = "trades"
    /\ cycle < MaxCycles
    /\ FreshRows(broker, brokerWidth) # <<>>
    /\ brokerWidth = RowWidth
    /\ LET fresh == FreshRows(broker, brokerWidth)
           known == BatchNames(broker, fresh) \cap Participants
       IN  \E mode \in [known -> LoadModes] :
              /\ faults + Failed(mode) <= MaxFaults
              /\ faults' = faults + Failed(mode)
              /\ new_transactions_to_process' = fresh
              /\ participant_data_for_batch_update' =
                     [name \in known |-> Prefetch(name, mode[name])]
              /\ loaded' = [name \in known |-> Prefetch(name, mode[name])]
    /\ updates_to_broker_terminal' = <<>>
    /\ pc' = "orders"
    /\ k' = 1
    /\ cycle' = cycle + 1
    /\ UNCHANGED <<store, globals, applied, acceptedTrades>>

\* Lines 496-503: the order is rejected for its quantity, price or total text.
RejectUnparsed(i) ==
    /\ updates_to_broker_terminal' =
           Append(updates_to_broker_terminal, Cells(i, Blank, "no", Reason("invalid", 0, 0)))
    /\ UNCHANGED <<participant_data_for_batch_update, globals, applied, acceptedTrades>>

\* Lines 505-555: the order is rejected by the first check it fails.
RejectChecked(i, g, why) ==
    /\ updates_to_broker_terminal' =
           Append(updates_to_broker_terminal, Cells(i, g, "no", why))
    /\ UNCHANGED <<participant_data_for_batch_update, globals, applied, acceptedTrades>>

\* Lines 558-591: the execute block.  The ledger statements run first; the
\* trade-flow statements follow, and RECENT_TRADES_HISTORY[company] raises
\* KeyError for a company that is no configured instrument: the except clause
\* then marks the order as failed and leaves the snapshot as it is by then.
Execute(i, g, row, t) ==
    /\ participant_data_for_batch_update' =
           Settle(participant_data_for_batch_update, row, t)
    /\ applied' = [applied EXCEPT ![i] = @ \cup {cycle}]
    /\ IF row.company \in DOMAIN RECENT_TRADES_HISTORY
       THEN /\ RECENT_TRADES_HISTORY' =
                   [RECENT_TRADES_HISTORY EXCEPT
                       ![row.company] = PushTrade(@, row.price.v, row.qty.v)]
            /\ COMPANY_VOLUME' =
                   [COMPANY_VOLUME EXCEPT ![row.company] = @ + row.qty.v]
            /\ LAST_TRADED_PRICES' =
                   [LAST_TRADED_PRICES EXCEPT ![row.company] = row.price.v]
            /\ updates_to_broker_terminal' =
                   Append(updates_to_broker_terminal,
                          Cells(i, g, "ok", Reason("completed", 0, 0)))
            /\ acceptedTrades' =
                   [acceptedTrades EXCEPT
                       ![row.company] = Append(@, <<row.price.v, row.qty.v>>)]
       ELSE /\ updates_to_broker_terminal' =
                   Append(updates_to_broker_terminal,
                          Cells(i, g, "no", Reason("execution", 0, 0)))
            /\ UNCHANGED <<tradeFlow, acceptedTrades>>
    /\ UNCHANGED <<CURRENT_VWAP_PRICES, CURRENT_CIRCUITS>>

\* Lines 483-591: one turn of the loop over the batch.
ProcessOrder ==
    /\ pc = "orders"
    /\ k <= Len(new_transactions_to_process)
    /\ LET i == new_transactions_to_process[k]
           row == broker[i]
       IN  IF ParseFails(row) THEN RejectUnparsed(i)
           ELSE \E t \in Round2(row.qty.v * row.price.v) :
                   LET g == IF NeedsCorrection(row.total, t) THEN Num(t) ELSE Blank
                       why == Validate(row, t, participant_data_for_batch_update,
                                       CURRENT_CIRCUITS)
                   IN  IF why # NoReason THEN RejectChecked(i, g, why)
                       ELSE Execute(i, g, row, t)
    /\ k' = k + 1
    /\ UNCHANGED <<store, new_transactions_to_process, pc, cycle, loaded, faults>>

\* The order rows after the cells of `updates` are written.
Written(rows, updates) ==
    [i \in 1..Len(rows) |->
        IF \E j \in 1..Len(updates) : updates[j].row = i
        THEN LET u == updates[CHOOSE j \in 1..Len(updates) : updates[j].row = i]
             IN  [rows[i] EXCEPT !.total = IF u.G.kind = "num" THEN u.G ELSE @,
                                 !.status = u.H, !.reason = u.I, !.flag = u.J]
        ELSE rows[i]]

\* Lines 593-596: the outcomes are written to BrokerTerminal.
ReportOutcomes ==
    /\ pc = "orders"
    /\ k > Len(new_transactions_to_process)
    /\ broker' = Written(broker, updates_to_broker_terminal)
    /\ pc' = "persist"
    /\ UNCHANGED <<brokerWidth, ledgerCash, ledgerHold, ledgerTxns, adminRows, chartRows,
                   globals, locals, k, cycle, loaded, faults, applied, acceptedTrades>>

\* Lines 597-598: that write raises; the error is logged and nothing is written.
ReportFails ==
    /\ pc = "orders"
    /\ k > Len(new_transactions_to_process)
    /\ faults < MaxFaults
    /\ faults' = faults + 1
    /\ pc' = "persist"
    /\ UNCHANGED <<store, globals, locals, k, cycle, loaded, applied, acceptedTrades>>

\* How the writes to one participant's sheet may go: both succeed, batch_update
\* raises (and append_rows is not reached), append_rows raises.
SaveModes == {"ok", "lost", "unlogged"}

\* Lines 608-613: cell B2 and the holdings cells after batch_update.
SavedCash(cash) == {Num(r) : r \in Round2(cash)}
SavedHoldings(data, rows) ==
    [c \in DOMAIN rows |->
        IF c \in DOMAIN data.holdings /\ c \in data.ranges
        THEN Num(data.holdings[c]) ELSE rows[c]]

\* Lines 600-635: the snapshot is written back, one participant after the other.
Persist ==
    /\ pc = "persist"
    /\ LET pd == participant_data_for_batch_update
           live == {name \in DOMAIN pd : pd[name].ok}
       IN  \E mode \in [live -> SaveModes] :
           /\ faults + Failed(mode) <= MaxFaults
           /\ faults' = faults + Failed(mode)
           /\ \E cash \in [live -> UNION {SavedCash(pd[name].cash) : name \in live}] :
              /\ \A name \in live : cash[name] \in SavedCash(pd[name].cash)
              /\ ledgerCash' = [name \in Participants |->
                     IF name \in live /\ mode[name] # "lost"
                     THEN cash[name] ELSE ledgerCash[name]]
              /\ ledgerHold' = [name \in Participants |->
                     IF name \in live /\ mode[name] # "lost"
                     THEN SavedHoldings(pd[name], ledgerHold[name]) ELSE ledgerHold[name]]
              /\ ledgerTxns' = [name \in Participants |->
                     IF name \in live /\ mode[name] = "ok"
                     THEN ledgerTxns[name] \o pd[name].txns ELSE ledgerTxns[name]]
    /\ pc' = "chart"
    /\ UNCHANGED <<broker, brokerWidth, adminRows, chartRows, globals, locals, k, cycle,
                   loaded, applied, acceptedTrades>>

\* ------------------------------------------------------- update_price_chart
RECURSIVE PriceVolume(_, _)
PriceVolume(trades, n) ==
    IF n = 0 THEN 0 ELSE trades[n][1] * trades[n][2] + PriceVolume(trades, n - 1)

RECURSIVE Volume(_, _)
Volume(trades, n) ==
    IF n = 0 THEN 0 ELSE trades[n][2] + Volume(trades, n - 1)

\* A faulty variant of calculate_vwap: the guard on the total volume is left
\* out where the volume is negative.
calculate_vwap_Unguarded(history, company) ==
    LET trades == IF company \in DOMAIN history THEN history[company] ELSE <<>>
        total_price_volume == PriceVolume(trades, Len(trades))
        total_volume == Volume(trades, Len(trades))
    IN  IF trades = <<>> \/ total_volume = 0
        THEN [some |-> FALSE, v |-> 0]
        ELSE [some |-> TRUE, v |-> total_price_volume \div total_volume]

\* calculate_vwap: None for an empty window or a total volume that is not
\* positive, else the quotient (kept to the mill).
calculate_vwap(history, company) ==
    LET trades == IF company \in DOMAIN history THEN history[company] ELSE <<>>
        total_price_volume == PriceVolume(trades, Len(trades))
        total_volume == Volume(trades, Len(trades))
    IN  IF trades = <<>> \/ total_volume <= 0
        THEN [some |-> FALSE, v |-> 0]
        ELSE [some |-> TRUE, v |-> total_price_volume \div total_volume]

\* get_manual_overrides: the rows whose checkbox is ticked and whose price
\* parses; a read that fails gives no override.
get_manual_overrides(admin, readable) ==
    IF ~readable THEN [c \in {} |-> 0]
    ELSE [c \in {x \in DOMAIN admin : admin[x].apply /\ admin[x].price.kind = "num"} |->
             admin[c].price.v]

\* Lines 189-194: the checkboxes of the overrides read are set back to FALSE.
Acknowledged(admin, overrides) ==
    [c \in DOMAIN admin |->
        IF c \in DOMAIN overrides THEN [admin[c] EXCEPT !.apply = FALSE] ELSE admin[c]]

\* How reading Admin_Controls may go: read and acknowledged, the read raises,
\* the acknowledging batch_update raises.
AdminModes(admin) ==
    IF \E c \in DOMAIN admin : admin[c].apply /\ admin[c].price.kind = "num"
    THEN {"ok", "unread", "unacknowledged"}
    ELSE {"ok"}

\* The two draws of one company, as <<1/1000 of the base, mills>>: both at the
\* upper end of their ranges.
Draws == {<<PctMax, FixMax>>}

\* Lines 271-274.
Perturb(base_price, d) == base_price + (base_price * d[1]) \div 1000 + d[2]

\* Lines 276-277.
Floored(new_current_price) ==
    IF new_current_price < 0 THEN FloorPrice ELSE new_current_price

\* Lines 279-280, in 1/10 mill.
Circuit(new_current_price) ==
    [upper |-> new_current_price * UpperFactor, lower |-> new_current_price * LowerFactor]

\* Lines 282-287.
Clamp(new_current_price, circuit) ==
    IF new_current_price * CircScale > circuit.upper THEN circuit.upper \div CircScale
    ELSE IF new_current_price * CircScale < circuit.lower THEN circuit.lower \div CircScale
    ELSE new_current_price

\* A faulty variant of lines 248-291: the base is the previous price whatever
\* the window holds, as if the pass ran before the trades of the cycle.
UpdateCompany_IgnoresTrades(st, company, overrides, d) ==
    LET overridden == company \in DOMAIN overrides
        candidate == IF overridden THEN overrides[company]
                     ELSE Floored(Perturb(st.vwap[company], d))
        circuit == Circuit(candidate)
    IN  [vwap |-> [st.vwap EXCEPT ![company] = Clamp(candidate, circuit)],
         circuits |-> [st.circuits EXCEPT ![company] = circuit],
         history |-> IF overridden THEN [st.history EXCEPT ![company] = <<>>]
                     ELSE st.history]

\* Lines 248-291 for one configured company: the override or the perturbed
\* base, then the bounds and the clamp.
UpdateCompany(st, company, overrides, d) ==
    LET overridden == company \in DOMAIN overrides
        vwap_price_from_trades == calculate_vwap(st.history, company)
        base_price == IF vwap_price_from_trades.some THEN vwap_price_from_trades.v
                      ELSE st.vwap[company]
        candidate == IF overridden THEN overrides[company]
                     ELSE Floored(Perturb(base_price, d))
        circuit == Circuit(candidate)
    IN  [vwap |-> [st.vwap EXCEPT ![company] = Clamp(candidate, circuit)],
         circuits |-> [st.circuits EXCEPT ![company] = circuit],
         history |-> IF overridden THEN [st.history EXCEPT ![company] = <<>>]
                     ELSE st.history]

\* Lines 216-227: the loop over the rows; an empty name ends it, a name that is
\* no configured instrument is skipped.
RECURSIVE UpdateRows(_, _, _, _, _)
UpdateRows(st, rows, i, overrides, d) ==
    IF i > Len(rows) \/ rows[i] = "" THEN st
    ELSE IF rows[i] \notin Companies THEN UpdateRows(st, rows, i + 1, overrides, d)
    ELSE UpdateRows(UpdateCompany(st, rows[i], overrides, d[rows[i]]), rows, i + 1,
                    overrides, d)

\* The configured companies the loop reaches.
RECURSIVE Reached(_, _)
Reached(rows, i) ==
    IF i > Len(rows) \/ rows[i] = "" THEN {}
    ELSE (IF rows[i] \in Companies THEN {rows[i]} ELSE {}) \cup Reached(rows, i + 1)

\* Lines 208-317: a pass of update_price_chart that reads both sheets, with the
\* two random draws of every company taken from `draws`.  The locals of
\* process_trades are gone by now.
UpdatePriceChartWith(draws) ==
    /\ pc \in {"startup", "chart"}
    /\ \E mode \in AdminModes(adminRows) :
       \E d \in [Reached(chartRows, 1) -> draws] :
          /\ mode # "ok" => faults < MaxFaults
          /\ faults' = IF mode # "ok" THEN faults + 1 ELSE faults
          /\ LET overrides == get_manual_overrides(adminRows, mode # "unread")
                 st == UpdateRows([vwap |-> CURRENT_VWAP_PRICES,
                                   circuits |-> CURRENT_CIRCUITS,
                                   history |-> RECENT_TRADES_HISTORY],
                                  chartRows, 1, overrides, d)
             IN  /\ adminRows' = IF mode = "ok" THEN Acknowledged(adminRows, overrides)
                                 ELSE adminRows
                 /\ CURRENT_VWAP_PRICES' = st.vwap
                 /\ CURRENT_CIRCUITS' = st.circuits
                 /\ RECENT_TRADES_HISTORY' = st.history
                 /\ acceptedTrades' =
                        [c \in Companies |->
                            IF c \in DOMAIN overrides /\ c \in Reached(chartRows, 1)
                            THEN <<>> ELSE acceptedTrades[c]]
    /\ new_transactions_to_process' = <<>>
    /\ participant_data_for_batch_update' = <<>>
    /\ updates_to_broker_terminal' = <<>>
    /\ loaded' = <<>>
    /\ pc' = "trades"
    /\ k' = 1
    /\ UNCHANGED <<broker, brokerWidth, ledgerCash, ledgerHold, ledgerTxns, chartRows,
                   LAST_TRADED_PRICES, COMPANY_VOLUME, cycle, applied>>

UpdatePriceChart == UpdatePriceChartWith(Draws)

\* Lines 209-212 raise (SHEET_MAPPING has no such key, or a sheet cannot be
\* opened or read): the pass is given up before anything is changed.
ChartUnreachable ==
    /\ pc \in {"startup", "chart"}
    /\ faults < MaxFaults
    /\ faults' = faults + 1
    /\ new_transactions_to_process' = <<>>
    /\ participant_data_for_batch_update' = <<>>
    /\ updates_to_broker_terminal' = <<>>
    /\ loaded' = <<>>
    /\ pc' = "trades"
    /\ k' = 1
    /\ UNCHANGED <<store, globals, cycle, applied, acceptedTrades>>

\* ---------------------------------------------------------------- the loop
Next ==
    \/ SubmitOrder
    \/ WidenBroker
    \/ SetOverride
    \/ BrokerUnreachable
    \/ NoFreshOrders
    \/ UnpackFails
    \/ LoadBatch
    \/ ProcessOrder
    \/ ReportOutcomes
    \/ ReportFails
    \/ Persist
    \/ UpdatePriceChart
    \/ ChartUnreachable

Spec == Init /\ [][Next]_vars

\* ------------------------------------------- the loop under heavier pricing
\* The same loop with the store reachable, one trader who deals with itself (so
\* that neither cash nor stock runs out), more order rows, and the administrator
\* and the random draws ranging wider.
MaxTrades == 4

PricePairs == {<<"MasterAccount", "MasterAccount">>}

PriceTerms == {
    <<"RELIANCE", Num(5), Num(1500000), Blank>>,
    <<"RELIANCE", Num(6), Num(1250001), Num(7500000)>>,
    <<"RELIANCE", Num(-10), Num(-800000), Blank>> }

\* An override to a positive price (two cents), to zero and to a negative
\* price.
AnyOverridePrices == {20, 0, -500000}

\* Draws at both ends of the two ranges, and one with no percentage part and
\* minus a cent and a half of fixed part.
AnyDraws == {<<PctMax, FixMax>>, <<-PctMax, -FixMax>>, <<0, -15>>}

SubmitTrade == SubmitOrderOf(PricePairs, PriceTerms, MaxTrades)
SetAnyOverride == SetOverrideOf(AnyOverridePrices)
DiscoverPrices == UpdatePriceChartWith(AnyDraws)

NextPrices ==
    \/ SubmitTrade
    \/ SetAnyOverride
    \/ NoFreshOrders
    \/ LoadBatch
    \/ ProcessOrder
    \/ ReportOutcomes
    \/ Persist
    \/ DiscoverPrices

SpecPrices == Init /\ [][NextPrices]_vars

\* ------------------------------------------ the loop over other price rows
\* The same loop with no orders, while somebody rearranges the rows of
\* Price_Chart: both instruments listed, a name that is no instrument first, a
\* row without a name between two instruments, a row without a name first.
RowLayouts == { <<"RELIANCE", "BPCL">>,
                <<Unlisted, "BPCL", "RELIANCE">>,
                <<"RELIANCE", "", "BPCL">>,
                <<"", "RELIANCE">> }

ArrangeRows ==
    /\ pc = "trades"
    /\ cycle < MaxCycles
    /\ chartRows \notin RowLayouts
    /\ chartRows' \in RowLayouts
    /\ UNCHANGED <<broker, brokerWidth, ledgerCash, ledgerHold, ledgerTxns, adminRows,
                   globals, locals, pc, k, cycle, loaded, faults, applied, acceptedTrades>>

NextRows ==
    \/ ArrangeRows
    \/ SetAnyOverride
    \/ NoFreshOrders
    \/ DiscoverPrices

SpecRows == Init /\ [][NextRows]_vars

\* ------------------------------------------------------------- the claims
\* A step of the loop over the batch: one more order has its outcome.
OrderStep ==
    /\ pc = "orders"
    /\ Len(updates_to_broker_terminal') = Len(updates_to_broker_terminal) + 1

\* The order that step processes, and the outcome it is given.
Current == broker[new_transactions_to_process[k]]
Outcome == updates_to_broker_terminal'[Len(updates_to_broker_terminal')]

\* The cash and the holdings of the snapshot (not its transaction records).
Ledgers(pd) == [name \in DOMAIN pd |-> <<pd[name].cash, pd[name].holdings>>]

\* The entries of the snapshot that hold a ledger.
Live(pd) == {name \in DOMAIN pd : pd[name].ok}

\* The outcomes of the batch so far that are marked accepted / rejected.
Accepted == {j \in 1..Len(updates_to_broker_terminal) : updates_to_broker_terminal[j].H = "ok"}
Rejected == {j \in 1..Len(updates_to_broker_terminal) : updates_to_broker_terminal[j].H = "no"}
RowOf(j) == broker[updates_to_broker_terminal[j].row]

\* C1: an order that is marked rejected leaves the cash and the holdings of every
\* participant of the snapshot as they were before it was processed.
C1_RejectedLeavesLedgers ==
    [][(OrderStep /\ Outcome.H = "no")
          => Ledgers(participant_data_for_batch_update')
             = Ledgers(participant_data_for_batch_update)]_vars

C3_HoldingsNeverNegative ==
    \A name \in Live(participant_data_for_batch_update) :
        \A c \in DOMAIN participant_data_for_batch_update[name].holdings :
            participant_data_for_batch_update[name].holdings[c] >= 0

\* The cash of a set of participants of a snapshot, added up.
CashOf(pd, S) == SumOver([name \in S |-> pd[name].cash], S)

C5_HoldingsConserved ==
    [][(OrderStep /\ Outcome.H = "ok")
          => Held(participant_data_for_batch_update'[Current.buyer].holdings, Current.company)
             + Held(participant_data_for_batch_update'[Current.seller].holdings, Current.company)
             = Held(participant_data_for_batch_update[Current.buyer].holdings, Current.company)
               + Held(participant_data_for_batch_update[Current.seller].holdings, Current.company)]_vars

\* C5 witness: a batch holds an accepted order whose buyer is its seller, and an
\* accepted order whose buyer had no entry for the company when loaded.
C5_Witness ==
    /\ \E j \in Accepted : RowOf(j).buyer = RowOf(j).seller
    /\ \E j \in Accepted :
          /\ RowOf(j).company \notin DOMAIN loaded[RowOf(j).buyer].holdings
          /\ RowOf(j).company
                \in DOMAIN participant_data_for_batch_update[RowOf(j).buyer].holdings

\* C6: the effects of one order row on the ledgers and on the trade flow are
\* applied in at most one cycle.
C6_AppliedAtMostOnce ==
    \A i \in DOMAIN applied : Cardinality(applied[i]) <= 1

\* The row has its marker, its reason text and a cleared checkbox.
Resolved(row) ==
    row.status \in {"ok", "no"} /\ row.reason # NoReason /\ row.flag = "FALSE"

\* C7: when process_trades has ended, every row it took as fresh has its outcome
\* in the order store.
C7_EveryFreshRowResolved ==
    pc = "chart"
        => \A j \in 1..Len(new_transactions_to_process) :
               Resolved(broker[new_transactions_to_process[j]])

\* The outcome the fixed sequence of checks gives: parse(quantity, price), then
\* minimum order value, ledgers loaded, circuit bounds, buyer cash, seller stock.
SequenceVerdict(row, pd, circuits) ==
    IF row.qty.kind # "num" \/ row.price.kind # "num" THEN {"invalid"}
    ELSE {Validate(row, t, pd, circuits).kind : t \in Round2(row.qty.v * row.price.v)}

\* C8: every order gets the reason of the first check it fails, and is accepted
\* if and only if it fails none.
C8_FirstFailingCheckDecides ==
    [][OrderStep
          => LET verdicts == SequenceVerdict(Current, participant_data_for_batch_update,
                                             CURRENT_CIRCUITS)
             IN  IF Outcome.H = "ok" THEN "" \in verdicts
                 ELSE Outcome.I.kind \in verdicts \ {""}]_vars

\* The order passes the parse and every check that follows, for the total t.
PassesAll(row, t, pd, circuits) ==
    ~ParseFails(row) /\ Validate(row, t, pd, circuits) = NoReason

\* C9: an order that passes all checks is marked accepted and changes exactly
\* the cash and holdings of its buyer and seller, their transaction records and
\* the trade flow of its company, by its quantity, price and rounded total.
C9_AcceptedOrderEffect ==
    [][(OrderStep /\ ~ParseFails(Current))
          => \A t \in Round2(Current.qty.v * Current.price.v) :
                PassesAll(Current, t, participant_data_for_batch_update, CURRENT_CIRCUITS)
                => \E u \in Round2(Current.qty.v * Current.price.v) :
                      /\ Outcome.H = "ok"
                      /\ participant_data_for_batch_update'
                         = Settle(participant_data_for_batch_update, Current, u)
                      /\ Current.company \in Companies
                      /\ RECENT_TRADES_HISTORY' =
                            [RECENT_TRADES_HISTORY EXCEPT ![Current.company] =
                                PushTrade(@, Current.price.v, Current.qty.v)]
                      /\ COMPANY_VOLUME' =
                            [COMPANY_VOLUME EXCEPT ![Current.company] = @ + Current.qty.v]
                      /\ LAST_TRADED_PRICES' =
                            [LAST_TRADED_PRICES EXCEPT ![Current.company] = Current.price.v]
                      /\ UNCHANGED <<CURRENT_VWAP_PRICES, CURRENT_CIRCUITS, store>>]_vars

\* C10: an order whose quantity or price parses to zero or less is rejected with
\* the invalid-quantity-or-price reason and is never settled.
C10_NonPositiveRejectedAsInvalid ==
    [][(OrderStep /\ Current.qty.kind = "num" /\ Current.price.kind = "num"
           /\ (Current.qty.v <= 0 \/ Current.price.v <= 0))
          => /\ Outcome.H = "no"
             /\ Outcome.I.kind = "invalid"
             /\ UNCHANGED <<participant_data_for_batch_update, tradeFlow>>]_vars

\* What lines 489-591 make of one order: the marker, the reason and the snapshot
\* it leaves, for each way its total may round.
OrderVerdicts(row, pd, circuits, history) ==
    IF ParseFails(row) THEN {<<"no", Reason("invalid", 0, 0), pd>>}
    ELSE {LET why == Validate(row, t, pd, circuits)
          IN  IF why # NoReason THEN <<"no", why, pd>>
              ELSE IF row.company \in DOMAIN history
                  THEN <<"ok", Reason("completed", 0, 0), Settle(pd, row, t)>>
              ELSE <<"no", Reason("execution", 0, 0), Settle(pd, row, t)>> :
          t \in Round2(row.qty.v * row.price.v)}

\* The declared totals an order may carry: none, text that is no number, a stale
\* number, and the recomputed total itself.
TwinTotals(row) ==
    {Blank, Junk, Num(1)}
        \cup (IF row.qty.kind = "num" /\ row.price.kind = "num"
              THEN {Num(t) : t \in Round2(row.qty.v * row.price.v)} ELSE {})

\* C11: the order being processed gets the marker, the reason and the ledger
\* effects that the same order would get with any other declared total.
C11_DeclaredTotalIsInert ==
    [][OrderStep
          => /\ <<Outcome.H, Outcome.I, participant_data_for_batch_update'>>
                    \in OrderVerdicts(Current, participant_data_for_batch_update,
                                      CURRENT_CIRCUITS, RECENT_TRADES_HISTORY)
             /\ \A d \in TwinTotals(Current) :
                    OrderVerdicts([Current EXCEPT !.total = d],
                                  participant_data_for_batch_update,
                                  CURRENT_CIRCUITS, RECENT_TRADES_HISTORY)
                    = OrderVerdicts(Current, participant_data_for_batch_update,
                                    CURRENT_CIRCUITS, RECENT_TRADES_HISTORY)]_vars

\* The company has circuit bounds in force: both are set and neither is zero.
Established(circuits, company) ==
    /\ company \in DOMAIN circuits
    /\ circuits[company].upper # 0
    /\ circuits[company].lower # 0

\* circuitLower <= price <= circuitUpper, the bounds being in 1/10 mill.
InBand(circuits, company, price) ==
    /\ circuits[company].lower <= price * CircScale
    /\ price * CircScale <= circuits[company].upper

\* The order gets as far as the circuit check: it parses, its total reaches the
\* minimum and both its participants have a ledger in the snapshot.
ReachesCircuitCheck(row, pd) ==
    /\ ~ParseFails(row)
    /\ \A t \in Round2(row.qty.v * row.price.v) : ~BelowMinimum(t)
    /\ ~LedgerMissing(pd, row.buyer)
    /\ ~LedgerMissing(pd, row.seller)

\* C12, as stated: with bounds in force an accepted order has its price in the
\* band, and every order priced outside the band is rejected with the reason
\* that states the bounds.
C12_OutsideBandAlwaysCircuitReason ==
    [][(OrderStep /\ Current.price.kind = "num"
           /\ Established(CURRENT_CIRCUITS, Current.company))
          => /\ Outcome.H = "ok"
                    => InBand(CURRENT_CIRCUITS, Current.company, Current.price.v)
             /\ ~InBand(CURRENT_CIRCUITS, Current.company, Current.price.v)
                    => /\ Outcome.H = "no"
                       /\ Outcome.I = Reason("circuit",
                                             CURRENT_CIRCUITS[Current.company].lower,
                                             CURRENT_CIRCUITS[Current.company].upper)]_vars

\* C12, amended: with bounds in force an accepted order has its price in the
\* band (bounds included), every order priced outside the band is rejected, and
\* it is rejected with the reason that states the bounds when it gets as far as
\* the circuit check.
C12_OutsideBandRejected ==
    [][(OrderStep /\ Current.price.kind = "num"
           /\ Established(CURRENT_CIRCUITS, Current.company))
          => /\ Outcome.H = "ok"
                    => InBand(CURRENT_CIRCUITS, Current.company, Current.price.v)
             /\ ~InBand(CURRENT_CIRCUITS, Current.company, Current.price.v)
                    => /\ Outcome.H = "no"
                       /\ UNCHANGED <<participant_data_for_batch_update, tradeFlow>>
                       /\ ReachesCircuitCheck(Current, participant_data_for_batch_update)
                              => Outcome.I = Reason("circuit",
                                            CURRENT_CIRCUITS[Current.company].lower,
                                            CURRENT_CIRCUITS[Current.company].upper)]_vars

\* C12 witness: one batch holds an order accepted at a price that is exactly the
\* lower bound, and an order rejected with the circuit reason.
C12_Witness ==
    /\ \E j \in Accepted :
          /\ Established(CURRENT_CIRCUITS, RowOf(j).company)
          /\ RowOf(j).price.v * CircScale = CURRENT_CIRCUITS[RowOf(j).company].lower
    /\ \E j \in Rejected : updates_to_broker_terminal[j].I.kind = "circuit"

\* C13: for every company the price pass updates, the stored reference price
\* lies between the stored circuit bounds.
C13_CircuitContainment ==
    \A c \in Reached(chartRows, 1) :
        /\ CURRENT_CIRCUITS[c].lower <= CURRENT_VWAP_PRICES[c] * CircScale
        /\ CURRENT_VWAP_PRICES[c] * CircScale <= CURRENT_CIRCUITS[c].upper

\* The last n entries of a sequence, in their order.
LastOf(s, n) == IF Len(s) <= n THEN s ELSE SubSeq(s, Len(s) - n + 1, Len(s))

\* C14: the window of every company holds at most three entries, and they are
\* the most recent (up to three) orders accepted for it since an override was
\* last applied to it, oldest first.
C14_WindowIsLastAccepted ==
    \A c \in Companies :
        /\ Len(RECENT_TRADES_HISTORY[c]) <= WindowSize
        /\ RECENT_TRADES_HISTORY[c] = LastOf(acceptedTrades[c], WindowSize)

\* C14 witness: more orders than the window holds were accepted for a company,
\* the oldest of them differs from all that are kept.
C14_Witness ==
    \E c \in Companies :
        /\ Len(acceptedTrades[c]) > WindowSize
        /\ \A j \in 1..Len(RECENT_TRADES_HISTORY[c]) :
              RECENT_TRADES_HISTORY[c][j] # acceptedTrades[c][1]

\* The window of a company, as calculate_vwap reads it.
WindowOf(c) == IF c \in DOMAIN RECENT_TRADES_HISTORY THEN RECENT_TRADES_HISTORY[c] ELSE <<>>

\* Sum of price * quantity, and of quantity, over a window.
Turnover(w) == SumOver([j \in 1..Len(w) |-> w[j][1] * w[j][2]], 1..Len(w))
Quantity(w) == SumOver([j \in 1..Len(w) |-> w[j][2]], 1..Len(w))

\* C15: for every window the program reaches, calculate_vwap gives no value when
\* the window is empty or its total quantity is zero or negative, and otherwise
\* the quotient of sum(price * quantity) by sum(quantity), kept to the mill.
C15_VwapIsWeightedMean ==
    \A c \in AllCompanies :
        LET w == WindowOf(c)
            r == calculate_vwap(RECENT_TRADES_HISTORY, c)
        IN  /\ r.some <=> (w # <<>> /\ Quantity(w) > 0)
            /\ r.some => /\ r.v * Quantity(w) <= Turnover(w)
                         /\ Turnover(w) < (r.v + 1) * Quantity(w)

\* C15 witness: one window holds trades at two prices, so that the weighted mean
\* is neither of them, and another window is not empty and has a negative total
\* quantity.
C15_Witness ==
    \E c \in Companies :
        LET w == WindowOf(c)
        IN  /\ Len(w) >= 2
            /\ Quantity(w) > 0
            /\ \A j \in 1..Len(w) : calculate_vwap(RECENT_TRADES_HISTORY, c).v # w[j][1]

\* C15 witness of the guard: a window that is not empty and whose total quantity
\* is negative.
C15_WitnessNegative ==
    \E c \in Companies : WindowOf(c) # <<>> /\ Quantity(WindowOf(c)) < 0

\* C16: COMPANY_VOLUME of a company never decreases and is never negative, and
\* it changes only in the step that accepts an order for that company, by the
\* quantity of that order.
C16_VolumeMonotonic ==
    [][\A c \in Companies :
          /\ COMPANY_VOLUME'[c] >= COMPANY_VOLUME[c]
          /\ COMPANY_VOLUME'[c] >= 0
          /\ COMPANY_VOLUME'[c] # COMPANY_VOLUME[c]
                => /\ OrderStep
                   /\ Outcome.H = "ok"
                   /\ Current.company = c
                   /\ COMPANY_VOLUME'[c] = COMPANY_VOLUME[c] + Current.qty.v]_vars

\* A step that is a pass of update_price_chart over the price rows.
PassStep == UpdatePriceChart \/ DiscoverPrices

\* The companies whose row a pass reaches and for which the administrator has
\* no override waiting.
Undirected ==
    {c \in Reached(chartRows, 1) :
        ~(adminRows[c].apply /\ adminRows[c].price.kind = "num")}

\* C17: after a pass without an override for a company, the company's
\* CURRENT_VWAP_PRICES is at least 0.01.
C17_PriceAtLeastFloor ==
    [][PassStep => \A c \in Undirected : CURRENT_VWAP_PRICES'[c] >= FloorPrice]_vars

\* A price v that some draw of lines 271-272 gives from the base, to the mill:
\* within [base * 0.985 - 0.02, base * 1.015 + 0.02] before the floor of lines
\* 276-277, which turns a negative value into 0.01.
WithinBand(base, v) ==
    LET lowest == base - (PctMax * base + 999) \div 1000 - FixMax
        highest == base + (PctMax * base) \div 1000 + FixMax
    IN  \/ lowest <= v /\ v <= highest
        \/ v = FloorPrice /\ lowest < 0

\* C18: in a pass without an override for a company, the new
\* CURRENT_VWAP_PRICES lies in the band around the volume-weighted mean of the
\* window when the window is not empty, and around the previous
\* CURRENT_VWAP_PRICES when it is empty.
C18_BaseIsVwapOrPrior ==
    [][PassStep =>
          \A c \in Undirected :
              LET w == WindowOf(c)
              IN  IF w # <<>>
                  THEN /\ Quantity(w) > 0
                       /\ WithinBand(Turnover(w) \div Quantity(w), CURRENT_VWAP_PRICES'[c])
                  ELSE WithinBand(CURRENT_VWAP_PRICES[c], CURRENT_VWAP_PRICES'[c])]_vars

\* The companies whose row a pass reaches and whose override the pass reads
\* and acknowledges without a fault.
Directed ==
    {c \in Reached(chartRows, 1) :
        adminRows[c].apply /\ adminRows[c].price.kind = "num" /\ faults' = faults}

\* C19: a pass that finds an override p for a company stores p as its
\* CURRENT_VWAP_PRICES, takes the circuit bounds from p and empties its window,
\* and leaves LAST_TRADED_PRICES and COMPANY_VOLUME alone; and a later pass
\* that comes before any order for the company is accepted finds no
\* volume-weighted mean and draws around the previous CURRENT_VWAP_PRICES.
C19_OverrideBecomesBaseline ==
    [][PassStep =>
          /\ \A c \in Directed :
                /\ CURRENT_VWAP_PRICES'[c] = adminRows[c].price.v
                /\ CURRENT_CIRCUITS'[c] = Circuit(adminRows[c].price.v)
                /\ RECENT_TRADES_HISTORY'[c] = <<>>
                /\ LAST_TRADED_PRICES'[c] = LAST_TRADED_PRICES[c]
                /\ COMPANY_VOLUME'[c] = COMPANY_VOLUME[c]
          /\ \A c \in Undirected :
                (adminRows[c].price.kind = "num" /\ acceptedTrades[c] = <<>>)
                   => /\ ~calculate_vwap(RECENT_TRADES_HISTORY, c).some
                      /\ WithinBand(CURRENT_VWAP_PRICES[c], CURRENT_VWAP_PRICES'[c])]_vars

\* The companies with a ticked checkbox and a price that parses in
\* Admin_Controls.
Activated == {c \in Companies : adminRows[c].apply /\ adminRows[c].price.kind = "num"}

\* The step applies the override of the company: lines 255-261 and 279-291 run
\* for it with the override price.
OverrideApplied(c) ==
    LET p == adminRows[c].price.v
    IN  /\ c \in Reached(chartRows, 1)
        /\ CURRENT_CIRCUITS'[c] = Circuit(p)
        /\ CURRENT_VWAP_PRICES'[c] = Clamp(p, Circuit(p))
        /\ RECENT_TRADES_HISTORY'[c] = <<>>

\* C20: a pass applies an activated override exactly when it sets the
\* checkbox of that override back to FALSE, so that no override is applied and
\* left ticked for a later pass, and none is unticked without being applied.
C20_AppliedIffCleared ==
    [][PassStep => \A c \in Activated : OverrideApplied(c) <=> ~adminRows'[c].apply]_vars

\* The ledger of the participant was not obtained by the pre-fetch of this
\* batch: the name is not in SHEET_MAPPING, the sheet could not be opened, or
\* the read of the cash cell or of the holdings rows raised (the snapshot then
\* differs from what the store holds).
Unobtained(name) ==
    \/ name \notin DOMAIN loaded
    \/ ~loaded[name].ok
    \/ loaded[name].cash # get_cash_balance(ledgerCash[name], TRUE)
    \/ loaded[name].holdings # get_holdings(ledgerHold[name], TRUE)

\* The order gets as far as the test of lines 514-515: it parses and its total
\* reaches the minimum.
ReachesLedgerCheck(row) ==
    /\ ~ParseFails(row)
    /\ \A t \in Round2(row.qty.v * row.price.v) : ~BelowMinimum(t)

\* C21: an order that names a participant whose ledger was not obtained, and
\* that is not rejected before the ledgers are looked at, is rejected with the
\* access-error reason and leaves the snapshot and the trade flow as they were,
\* so that the other orders of the batch are settled as if it were absent.
C21_UnobtainedLedgerRejects ==
    [][(OrderStep /\ ReachesLedgerCheck(Current)
           /\ (Unobtained(Current.buyer) \/ Unobtained(Current.seller)))
          => /\ Outcome.H = "no"
             /\ Outcome.I.kind = "access"
             /\ UNCHANGED <<participant_data_for_batch_update, tradeFlow>>]_vars

\* The company has a row in Price_Chart.
HasRow(c) == \E i \in 1..Len(chartRows) : chartRows[i] = c

\* C22: in a pass that reads both sheets without a fault, every configured
\* company with a row in Price_Chart gets the price, the bounds and the window
\* that lines 248-291 compute from its own state before the pass, whatever the
\* other rows hold, and a company without a row keeps its state.
C22_CompaniesIndependent ==
    [][(PassStep /\ faults' = faults) =>
          LET overrides == get_manual_overrides(adminRows, TRUE)
              st == [vwap |-> CURRENT_VWAP_PRICES, circuits |-> CURRENT_CIRCUITS,
                     history |-> RECENT_TRADES_HISTORY]
          IN  \A c \in Companies :
                 IF HasRow(c)
                 THEN \E d \in Draws \cup AnyDraws :
                         LET r == UpdateCompany(st, c, overrides, d)
                         IN  /\ CURRENT_VWAP_PRICES'[c] = r.vwap[c]
                             /\ CURRENT_CIRCUITS'[c] = r.circuits[c]
                             /\ RECENT_TRADES_HISTORY'[c] = r.history[c]
                 ELSE /\ CURRENT_VWAP_PRICES'[c] = CURRENT_VWAP_PRICES[c]
                      /\ CURRENT_CIRCUITS'[c] = CURRENT_CIRCUITS[c]
                      /\ RECENT_TRADES_HISTORY'[c] = RECENT_TRADES_HISTORY[c]]_vars

\* The ledger statements of lines 559-564 ran for the j-th outcome of the
\* batch: the order was accepted, or its execute block failed after them.
Executed(j) ==
    updates_to_broker_terminal[j].H = "ok"
    \/ updates_to_broker_terminal[j].I.kind = "execution"

\* The total of the j-th order of the batch: the corrected total when one was
\* written, else the rounded product the declared total agrees with.
TotalOf(j) ==
    IF updates_to_broker_terminal[j].G.kind = "num" THEN updates_to_broker_terminal[j].G.v
    ELSE CHOOSE t \in Round2(RowOf(j).qty.v * RowOf(j).price.v) :
            ~NeedsCorrection(RowOf(j).total, t)

\* What the first n orders of the batch, taken in row order, leave of the
\* pre-fetched cash of a participant and of its pre-fetched holding of a company.
CashAfter(name, n) ==
    loaded[name].cash
    + SumOver([j \in 1..n |->
                  IF Executed(j)
                  THEN (IF RowOf(j).seller = name THEN TotalOf(j) ELSE 0)
                       - (IF RowOf(j).buyer = name THEN TotalOf(j) ELSE 0)
                  ELSE 0], 1..n)

HeldAfter(name, c, n) ==
    Held(loaded[name].holdings, c)
    + SumOver([j \in 1..n |->
                  IF Executed(j) /\ RowOf(j).company = c
                  THEN (IF RowOf(j).buyer = name THEN RowOf(j).qty.v ELSE 0)
                       - (IF RowOf(j).seller = name THEN RowOf(j).qty.v ELSE 0)
                  ELSE 0], 1..n)

\* The participant has an entry for the company after the first n orders.
EntryAfter(name, c, n) ==
    \/ c \in DOMAIN loaded[name].holdings
    \/ \E j \in 1..n : Executed(j) /\ RowOf(j).company = c /\ RowOf(j).buyer = name

\* C23: the order that comes k-th in row order is refused for cash exactly when
\* the buyer's pre-fetched cash, changed by the orders settled before it in the
\* batch and by no other, is below its total; and, when it is not, refused for
\* stock exactly when the seller's holding, changed in the same way, is below
\* its quantity; otherwise it is settled.
C23_ChecksSeeEarlierOrders ==
    [][(OrderStep /\ ReachesCircuitCheck(Current, participant_data_for_batch_update)
           /\ ~OutsideCircuit(CURRENT_CIRCUITS, Current.company, Current.price.v))
          => LET n == Len(updates_to_broker_terminal)
                 t == IF Outcome.G.kind = "num" THEN Outcome.G.v
                      ELSE CHOOSE x \in Round2(Current.qty.v * Current.price.v) :
                              ~NeedsCorrection(Current.total, x)
                 cash == CashAfter(Current.buyer, n)
                 short == cash < t
                 held == HeldAfter(Current.seller, Current.company, n)
                 lacking == \/ ~EntryAfter(Current.seller, Current.company, n)
                            \/ held < Current.qty.v
             IN  /\ Outcome.I = Reason("cash", cash, t) <=> short
                 /\ Outcome.I = Reason("stock", held, Current.qty.v) <=> (~short /\ lacking)
                 /\ Outcome.I.kind \in {"completed", "execution"} <=> (~short /\ ~lacking)]_vars

\* C23 witness: the second order of a batch was accepted although its buyer
\* had been pre-fetched with less cash than its total: the cash came from what
\* the buyer sold in the first order.
C23_Witness ==
    /\ pc = "persist"
    /\ Len(updates_to_broker_terminal) = 2
    /\ 1 \in Accepted /\ 2 \in Accepted
    /\ RowOf(1).seller = RowOf(2).buyer
    /\ RowOf(1).buyer # RowOf(2).buyer
    /\ loaded[RowOf(2).buyer].cash < TotalOf(2)

\* A batch in which the first order took so much of the buyer's cash that the
\* second, which the pre-fetched cash would have covered, was refused.
C23_Exhausted ==
    /\ pc = "persist"
    /\ Len(updates_to_broker_terminal) = 2
    /\ 1 \in Accepted
    /\ updates_to_broker_terminal[2].I.kind = "cash"
    /\ loaded[RowOf(2).buyer].cash >= updates_to_broker_terminal[2].I.b

\* The <<price, quantity>> of the orders for a company among the first n
\* outcomes of the batch that were accepted, in row order.
RECURSIVE TradesOf(_, _)
TradesOf(c, n) ==
    IF n = 0 THEN <<>>
    ELSE TradesOf(c, n - 1)
         \o (IF updates_to_broker_terminal[n].H = "ok" /\ RowOf(n).company = c
             THEN << <<RowOf(n).price.v, RowOf(n).qty.v>> >> ELSE <<>>)

\* process_trades is left without reaching its loop over the batch.
Aborts == BrokerUnreachable \/ UnpackFails

\* C24: CURRENT_CIRCUITS changes in no step but a call of update_price_chart,
\* so a batch is validated against the bounds the pass before it left;
\* process_trades, however it ends, is followed by update_price_chart and by
\* nothing else; and that pass finds in the window the trades the batch
\* accepted and, with no override, draws the new price around their mean.
C24_SettlementThenDiscovery ==
    /\ [][pc \notin {"startup", "chart"} => UNCHANGED CURRENT_CIRCUITS]_vars
    /\ [][(pc' = "chart" /\ pc # "chart") => pc \in {"trades", "persist"}]_vars
    /\ [][Aborts => pc' = "chart"]_vars
    /\ [][pc = "chart" => (PassStep \/ ChartUnreachable)]_vars
    /\ [](pc = "chart" =>
             \A c \in Companies :
                 LET trades == TradesOf(c, Len(updates_to_broker_terminal))
                 IN  LastOf(trades, WindowSize)
                     = LastOf(RECENT_TRADES_HISTORY[c],
                              IF Len(trades) < WindowSize THEN Len(trades) ELSE WindowSize))
    /\ [][(pc = "chart" /\ PassStep) =>
             \A c \in Undirected :
                 LET w == RECENT_TRADES_HISTORY[c]
                 IN  (TradesOf(c, Len(updates_to_broker_terminal)) # <<>> /\ Quantity(w) > 0)
                        => WithinBand(Turnover(w) \div Quantity(w),
                                      CURRENT_VWAP_PRICES'[c])]_vars

\* C24 witness: a cycle has ended in which an order was accepted, and the
\* pass that followed moved the price of its company into the band around the
\* price of that order and out of the band around the initial price, and took
\* the bounds from the new price.
C24_Witness ==
    \E c \in Companies :
        /\ pc = "trades"
        /\ cycle >= 1
        /\ acceptedTrades[c] # <<>>
        /\ Quantity(RECENT_TRADES_HISTORY[c]) > 0
        /\ WithinBand(Turnover(RECENT_TRADES_HISTORY[c]) \div Quantity(RECENT_TRADES_HISTORY[c]),
                      CURRENT_VWAP_PRICES[c])
        /\ ~WithinBand(INITIAL_COMPANY_PRICES[c], CURRENT_VWAP_PRICES[c])
        /\ CURRENT_CIRCUITS[c] = Circuit(CURRENT_VWAP_PRICES[c])

\* The step in which lines 600-628 write the snapshot back.
PersistStep == pc = "persist" /\ pc' = "chart"

\* The participants the batch names, none of whose orders got as far as the
\* execute block: every order naming them was rejected by a check.
Unsettled ==
    {name \in Participants :
        /\ \E j \in 1..Len(updates_to_broker_terminal) :
              name \in {RowOf(j).buyer, RowOf(j).seller}
        /\ \A j \in 1..Len(updates_to_broker_terminal) :
              name \in {RowOf(j).buyer, RowOf(j).seller} => ~Executed(j)}

\* C25: the persistence step leaves the stored cash and the stored holdings of
\* a participant as they were when every order of the batch that names the
\* participant was rejected.
C25_RejectedLedgerUntouched ==
    [][PersistStep =>
          \A name \in Unsettled :
              /\ ledgerCash'[name] = ledgerCash[name]
              /\ ledgerHold'[name] = ledgerHold[name]]_vars

\* The quantity of a company the store holds over all participants.
StoredTotal(hold, c) ==
    SumOver([name \in Participants |-> Held(get_holdings(hold[name], TRUE), c)],
            Participants)

\* C26: when the ledgers of the batch were read as stored and no write of the
\* persistence step fails, reading the ledgers again gives every participant
\* of the snapshot its in-memory cash, rounded to the cent, and each of its
\* in-memory holdings, and the store holds of every company what it held
\* before.
C26_PersistenceFaithful ==
    [][(PersistStep /\ faults' = faults
           /\ \A name \in DOMAIN loaded : ~Unobtained(name))
          => /\ \A name \in Live(participant_data_for_batch_update) :
                   LET data == participant_data_for_batch_update[name]
                       again == get_holdings(ledgerHold'[name], TRUE)
                   IN  /\ get_cash_balance(ledgerCash'[name], TRUE) \in Round2(data.cash)
                       /\ \A c \in DOMAIN data.holdings :
                             c \in DOMAIN again /\ again[c] = data.holdings[c]
             /\ \A c \in AllCompanies :
                   StoredTotal(ledgerHold', c) = StoredTotal(ledgerHold, c)]_vars

====
